---- MODULE Spec2Model ----
(***************************************************************************)
(* A model of setup_migration.py: the MariaDB -> ScyllaDB replication      *)
(* setup.  The type mapper is modelled as a pure operator on character     *)
(* sequences; the orchestrator and the DDL generators are modelled as      *)
(* operators that issue statements against a database state, one action    *)
(* per function called from main / setup_table_migration.                  *)
(***************************************************************************)
EXTENDS Integers, Sequences, FiniteSets, TLC

VARIABLES
    mtIn,      \* type mapper: the argument of the call
    mtRes,     \* type mapper: [type, diag] returned / printed by the call
    mtAgain,   \* type mapper: the result of mapping mtRes.type again
    src,       \* source database: table name -> [cols, pk, rows]
    db,        \* what the run creates: mirror database, keyspace, tables, triggers
    pc,        \* position of main
    tables,    \* main's `tables`, the list get_source_tables returned
    idx,       \* index in `tables` of the table the current loop is at
    conn,      \* mariadb_conn: "none", "open" or "closed"
    session,   \* scylla_session: "none", "open" or "closed"
    trace,     \* statements executed and lines printed by the last call
    ret,       \* what the last call returned ("True", "False", "None", "raise")
    calls,     \* the calls main made in this run, in order
    faulted,   \* tables for which the environment failed a statement this run
    refused,   \* tables for which the database state refused a statement this run
    faults,    \* statements the environment failed so far
    runNo,     \* how many times the tool was started
    baseline,  \* what the previous run left: see Snapshot
    check,     \* health check: the function running ("none": none)
    attempt,   \* health check: `attempt`
    probes,    \* health check: probes made so far
    slept,     \* health check: seconds slept so far
    probe,     \* health check: what the last probe did
    healthy,   \* health check: "pending", or how it ended: "True", "False", "raise"
    dockerd,   \* Docker: the named container's status ("absent": none), image present
    manage     \* manage_container: db_type, position, what it did and returned

mapvars == <<mtIn, mtRes, mtAgain>>
healthvars == <<check, attempt, probes, slept, probe, healthy>>
containervars == <<dockerd, manage>>
runvars == <<src, db, pc, tables, idx, conn, session, trace, ret, calls,
             faulted, refused, faults, runNo, baseline>>
vars == <<mtIn, mtRes, mtAgain, src, db, pc, tables, idx, conn, session, trace,
          ret, calls, faulted, refused, faults, runNo, baseline,
          check, attempt, probes, slept, probe, healthy, dockerd, manage>>

\* manage_container is not running
NoContainer == [status |-> "absent", image |-> FALSE]
NotManaging == [db_type |-> "None", at |-> "none", within |-> "none",
                did |-> "nothing", waited |-> FALSE, returns |-> "nothing"]

\* no health check is running, no container is being managed
NoHealthCheck ==
    /\ dockerd = NoContainer
    /\ manage = NotManaging
    /\ check = "none"
    /\ attempt = 0
    /\ probes = 0
    /\ slept = 0
    /\ probe = "none"
    /\ healthy = "pending"

\* before the call: no result
NoResult == [type |-> <<>>, diag |-> <<>>]

(***************************************************************************)
(* Strings the type mapper inspects are sequences of one-character         *)
(* strings, so that lower(), split('('), startswith() and `in` are         *)
(* computed and not assumed.                                               *)
(***************************************************************************)
ToLower ==
    [ A |-> "a", B |-> "b", C |-> "c", D |-> "d", E |-> "e", F |-> "f", G |-> "g",
      H |-> "h", I |-> "i", J |-> "j", K |-> "k", L |-> "l", M |-> "m", N |-> "n",
      O |-> "o", P |-> "p", Q |-> "q", R |-> "r", S |-> "s", T |-> "t", U |-> "u",
      V |-> "v", W |-> "w", X |-> "x", Y |-> "y", Z |-> "z" ]

ToUpper ==
    [ a |-> "A", b |-> "B", c |-> "C", d |-> "D", e |-> "E", f |-> "F", g |-> "G",
      h |-> "H", i |-> "I", j |-> "J", k |-> "K", l |-> "L", m |-> "M", n |-> "N",
      o |-> "O", p |-> "P", q |-> "Q", r |-> "R", s |-> "S", t |-> "T", u |-> "U",
      v |-> "V", w |-> "W", x |-> "X", y |-> "Y", z |-> "Z" ]

LowerChar(c) == IF c \in DOMAIN ToLower THEN ToLower[c] ELSE c

UpperChar(c) == IF c \in DOMAIN ToUpper THEN ToUpper[c] ELSE c

\* str.lower()
Lower(s) == SubSeq([i \in 1..Len(s) |-> LowerChar(s[i])], 1, Len(s))

\* str.upper(), used only to build mixed-case inputs
Upper(s) == SubSeq([i \in 1..Len(s) |-> UpperChar(s[i])], 1, Len(s))

\* s.split('(')[0]: everything before the first '(' (all of s when there is none)
SplitParenFirst(s) ==
    IF \E i \in 1..Len(s) : s[i] = "("
    THEN SubSeq(s, 1, (CHOOSE i \in 1..Len(s) :
                          /\ s[i] = "("
                          /\ \A j \in 1..(i-1) : s[j] # "(") - 1)
    ELSE s

\* s.startswith(p)
StartsWith(s, p) == Len(p) <= Len(s) /\ SubSeq(s, 1, Len(p)) = p

\* p in s
Contains(s, p) ==
    \E i \in 1..(Len(s) - Len(p) + 1) : SubSeq(s, i, i + Len(p) - 1) = p

T_tinyint    == <<"t","i","n","y","i","n","t">>
T_smallint   == <<"s","m","a","l","l","i","n","t">>
T_int        == <<"i","n","t">>
T_bigint     == <<"b","i","g","i","n","t">>
T_float      == <<"f","l","o","a","t">>
T_double     == <<"d","o","u","b","l","e">>
T_decimal    == <<"d","e","c","i","m","a","l">>
T_varchar    == <<"v","a","r","c","h","a","r">>
T_char       == <<"c","h","a","r">>
T_text       == <<"t","e","x","t">>
T_tinytext   == <<"t","i","n","y","t","e","x","t">>
T_mediumtext == <<"m","e","d","i","u","m","t","e","x","t">>
T_longtext   == <<"l","o","n","g","t","e","x","t">>
T_varbinary  == <<"v","a","r","b","i","n","a","r","y">>
T_binary     == <<"b","i","n","a","r","y">>
T_blob       == <<"b","l","o","b">>
T_tinyblob   == <<"t","i","n","y","b","l","o","b">>
T_mediumblob == <<"m","e","d","i","u","m","b","l","o","b">>
T_longblob   == <<"l","o","n","g","b","l","o","b">>
T_date       == <<"d","a","t","e">>
T_datetime   == <<"d","a","t","e","t","i","m","e">>
T_timestamp  == <<"t","i","m","e","s","t","a","m","p">>
T_time       == <<"t","i","m","e">>
T_uuid       == <<"u","u","i","d">>
T_bytea      == <<"b","y","t","e","a">>
S_binary16   == <<"b","i","n","a","r","y","(","1","6",")">>
S_char36     == <<"c","h","a","r","(","3","6",")">>
S_char10     == <<"c","h","a","r","(","1","0",")">>

\* The mapping table with blob types sent to a type name that is no key of
\* the table (a slip a port from another target store would make).
type_mapping_bytea ==
    << <<T_tinyint, T_tinyint>>, <<T_smallint, T_smallint>>, <<T_int, T_int>>,
       <<T_bigint, T_bigint>>, <<T_float, T_float>>, <<T_double, T_double>>,
       <<T_decimal, T_decimal>>, <<T_varchar, T_text>>, <<T_char, T_text>>,
       <<T_text, T_text>>, <<T_tinytext, T_text>>, <<T_mediumtext, T_text>>,
       <<T_longtext, T_text>>, <<T_varbinary, T_bytea>>, <<T_binary, T_bytea>>,
       <<T_blob, T_bytea>>, <<T_tinyblob, T_bytea>>, <<T_mediumblob, T_bytea>>,
       <<T_longblob, T_bytea>>, <<T_date, T_date>>, <<T_datetime, T_timestamp>>,
       <<T_timestamp, T_timestamp>>, <<T_time, T_time>> >>

\* type_mapping, as <<key, value>> pairs in the dict's insertion order
type_mapping ==
    << <<T_tinyint, T_tinyint>>, <<T_smallint, T_smallint>>, <<T_int, T_int>>,
       <<T_bigint, T_bigint>>, <<T_float, T_float>>, <<T_double, T_double>>,
       <<T_decimal, T_decimal>>, <<T_varchar, T_text>>, <<T_char, T_text>>,
       <<T_text, T_text>>, <<T_tinytext, T_text>>, <<T_mediumtext, T_text>>,
       <<T_longtext, T_text>>, <<T_varbinary, T_blob>>, <<T_binary, T_blob>>,
       <<T_blob, T_blob>>, <<T_tinyblob, T_blob>>, <<T_mediumblob, T_blob>>,
       <<T_longblob, T_blob>>, <<T_date, T_date>>, <<T_datetime, T_timestamp>>,
       <<T_timestamp, T_timestamp>>, <<T_time, T_time>> >>

\* type_mapping.keys(), in insertion order
MappingKeys == [i \in 1..Len(type_mapping) |-> type_mapping[i][1]]

\* type_mapping[key]
MappingValue(key) ==
    type_mapping[CHOOSE i \in 1..Len(type_mapping) : type_mapping[i][1] = key][2]

MaxKeyLen ==
    CHOOSE n \in 0..16 :
        /\ \A i \in 1..Len(MappingKeys) : Len(MappingKeys[i]) <= n
        /\ \E i \in 1..Len(MappingKeys) : Len(MappingKeys[i]) = n

HasLen(n, k) == Len(k) = n

RECURSIVE BucketsDown(_, _)
\* the keys of length n, then those of length n-1, ... each bucket in the
\* order of keys (a stable sort by length, longest first)
BucketsDown(keys, n) ==
    IF n < 0 THEN <<>>
    ELSE SelectSeq(keys, LAMBDA k : HasLen(n, k)) \o BucketsDown(keys, n - 1)

RECURSIVE BucketsUp(_, _)
BucketsUp(keys, n) ==
    IF n > MaxKeyLen THEN <<>>
    ELSE SelectSeq(keys, LAMBDA k : HasLen(n, k)) \o BucketsUp(keys, n + 1)

\* the keys tried shortest first (the sort without reverse=True)
SortedKeysAscending == BucketsUp(MappingKeys, 0)

\* sorted(type_mapping.keys(), key=len, reverse=True)
SortedKeys == BucketsDown(MappingKeys, MaxKeyLen)

\* the default path without its print
UnknownTypeSilent(mariadb_type) == [type |-> T_text, diag |-> <<>>]

\* the default path: one warning naming the type as given, then 'text'
UnknownType(mariadb_type) ==
    [type |-> T_text,
     diag |-> << [level |-> "warning", unknown |-> mariadb_type] >>]

\* the loop over the sorted keys, the UUID test and the default, given the
\* lower-cased type and its base keyword
Classify(mariadb_type, mariadb_type_lower, base_type) ==
    LET hits == { i \in 1..Len(SortedKeys) : StartsWith(base_type, SortedKeys[i]) }
    IN  IF hits # {}
        THEN [type |-> MappingValue(SortedKeys[CHOOSE i \in hits :
                                                  \A j \in hits : i <= j]),
              diag |-> <<>>]
        ELSE IF \/ Contains(mariadb_type_lower, S_binary16)
                \/ Contains(mariadb_type_lower, S_char36)
        THEN [type |-> T_uuid, diag |-> <<>>]
        ELSE UnknownType(mariadb_type)

\* mariadb_type_to_cql_type: [type: the CQL type returned, diag: what it printed]
mariadb_type_to_cql_type(mariadb_type) ==
    CHOOSE r \in { Classify(mariadb_type, mariadb_type_lower, base_type) :
                      mariadb_type_lower \in { Lower(mariadb_type) },
                      base_type \in { SplitParenFirst(Lower(mariadb_type)) } } : TRUE

(***************************************************************************)
(* The source database.  A table's catalog entry holds its columns in      *)
(* ordinal order (information_schema.columns) and its primary-key columns  *)
(* in key order (information_schema.key_column_usage).                     *)
(***************************************************************************)
MaxRows == 1
MaxRuns == 2
MaxFaults == 1

\* replication: the values a column may hold are 1..MaxValue, and the source
\* table holds at most MaxLiveRows rows
MaxValue == 2
MaxLiveRows == 2

TableNames == {"animals", "habitats"}

\* the position of a table name in lexicographic order
NameRank(t) == IF t = "animals" THEN 1 ELSE 2

CatalogColumn(name, type, nullable, key) ==
    [column_name |-> name, column_type |-> type,
     is_nullable |-> nullable, column_key |-> key]

\* animals(animal_id PK int, name varchar(50), weight_kg decimal)
SchemaSingleKey ==
    [cols |-> << CatalogColumn("animal_id", T_int \o <<"(","1","1",")">>, "NO", "PRI"),
                 CatalogColumn("name", T_varchar \o <<"(","5","0",")">>, "YES", ""),
                 CatalogColumn("weight_kg", T_decimal \o <<"(","5",",","2",")">>, "YES", "") >>,
     pk |-> << "animal_id" >>]

\* a table without a primary key
SchemaNoKey ==
    [cols |-> << CatalogColumn("id", T_int \o <<"(","1","1",")">>, "YES", ""),
                 CatalogColumn("note", T_text, "YES", "") >>,
     pk |-> << >>]

\* PRIMARY KEY (code, region) on a table that declares region before code,
\* with a column of a type the mapping table does not list
SchemaCompositeKey ==
    [cols |-> << CatalogColumn("region", T_varchar \o <<"(","1","0",")">>, "NO", "PRI"),
                 CatalogColumn("code", T_int \o <<"(","1","1",")">>, "NO", "PRI"),
                 CatalogColumn("attrs", <<"j","s","o","n">>, "YES", "") >>,
     pk |-> << "code", "region" >>]

Schemas == { SchemaSingleKey, SchemaNoKey, SchemaCompositeKey }

\* row k of a table: every column holds k
RowsOf(schema, n) == { [i \in 1..Len(schema.cols) |-> k] : k \in 1..n }

SourceTables ==
    { [cols |-> s.cols, pk |-> s.pk, rows |-> RowsOf(s, n)] :
        s \in Schemas, n \in 0..MaxRows }

\* the source databases a run may find: no table at all, or both tables
SourceDatabases == { [t \in {} |-> <<>>] } \cup [TableNames -> SourceTables]

(***************************************************************************)
(* What the run creates: the mirror database and its tables (MariaDB),     *)
(* the keyspace and its tables (ScyllaDB), the triggers on the source.     *)
(***************************************************************************)
EmptyDb ==
    [mirrorDb |-> FALSE, keyspace |-> FALSE, scylla |-> {}, mirror |-> {},
     triggers |-> {}]

HasTable(set, t) == \E x \in set : x.name = t
TheTable(set, t) == CHOOSE x \in set : x.name = t
HasTrigger(d, name) == \E g \in d.triggers : g.name = name

Statement(op, target, table, cond, body) ==
    [op |-> op, target |-> target, table |-> table, cond |-> cond, body |-> body]

NoBody == [none |-> TRUE]

\* the index of column `name` in a column list
PositionOf(cols, name) == CHOOSE i \in 1..Len(cols) : cols[i].name = name

\* the primary-key value of a row of mirror table m
KeyOf(m, row) == [i \in 1..Len(m.pk) |-> row[PositionOf(m.cols, m.pk[i])]]

\* a write to a ScyllaDB-backed table replaces the row with the same key
Upsert(m, rows) ==
    { x \in m.rows : \A r \in rows : KeyOf(m, x) # KeyOf(m, r) } \cup rows

\* whether the database, in state d, rejects statement s
Refuses(d, s) ==
    CASE s.op = "CREATE_DATABASE" -> ~s.cond /\ d.mirrorDb
      [] s.op = "CREATE_KEYSPACE" -> ~s.cond /\ d.keyspace
      [] s.op = "CREATE_TABLE" /\ s.target = "scylla" ->
            \/ ~d.keyspace
            \/ s.body.pk = <<>>
            \/ ~s.cond /\ HasTable(d.scylla, s.table)
      [] s.op = "CREATE_TABLE" /\ s.target = "mirror" ->
            \/ ~d.mirrorDb
            \/ ~s.cond /\ HasTable(d.mirror, s.table)
      [] s.op = "DROP_TRIGGER" -> ~s.cond /\ ~HasTrigger(d, s.body.name)
      [] s.op = "CREATE_TRIGGER" -> HasTrigger(d, s.body.name)
      [] s.op = "INSERT_SELECT" -> ~HasTable(d.mirror, s.table)
      [] s.op = "SELECT_COUNT" -> s.table \notin DOMAIN src
      [] OTHER -> FALSE

\* the database after statement s succeeded in state d
Effect(d, s) ==
    CASE s.op = "CREATE_DATABASE" -> [d EXCEPT !.mirrorDb = TRUE]
      [] s.op = "CREATE_KEYSPACE" -> [d EXCEPT !.keyspace = TRUE]
      [] s.op = "CREATE_TABLE" /\ s.target = "scylla" ->
            IF HasTable(d.scylla, s.table) THEN d
            ELSE [d EXCEPT !.scylla = @ \cup
                    { [name |-> s.table, cols |-> s.body.cols, pk |-> s.body.pk] }]
      [] s.op = "CREATE_TABLE" /\ s.target = "mirror" ->
            IF HasTable(d.mirror, s.table) THEN d
            ELSE [d EXCEPT !.mirror = @ \cup
                    { [name |-> s.table, cols |-> s.body.cols, pk |-> s.body.pk,
                       comment |-> s.body.comment, rows |-> {}] }]
      [] s.op = "DROP_TRIGGER" ->
            [d EXCEPT !.triggers = { g \in @ : g.name # s.body.name }]
      [] s.op = "CREATE_TRIGGER" -> [d EXCEPT !.triggers = @ \cup { s.body }]
      [] s.op = "INSERT_SELECT" ->
            LET m == TheTable(d.mirror, s.table)
            IN  [d EXCEPT !.mirror = (@ \ {m}) \cup
                    { [m EXCEPT !.rows = Upsert(m, src[s.table].rows)] }]
      [] OTHER -> d

Printed(msg) == [ev |-> "print", msg |-> msg]
CursorOpened == [ev |-> "cursor", msg |-> "open"]
\* the cursor never closed
CursorLeftOpen == [ev |-> "cursor", msg |-> "left open"]

CursorClosed == [ev |-> "cursor", msg |-> "close"]

\* cursor.execute / session.execute: the statement fails when the environment
\* fails it (inject) or the database refuses it, and then changes nothing
Execute(d, s, inject) ==
    LET no == Refuses(d, s)
        ok == ~inject /\ ~no
    IN  [db |-> IF ok THEN Effect(d, s) ELSE d,
         ok |-> ok,
         ev |-> [ev |-> "execute", stmt |-> s, ok |-> ok, injected |-> inject,
                 refused |-> no]]

\* what one call did: the database after it, what it executed and printed,
\* and what it returned ("raise": it raised)
Outcome(d, tr, r) == [db |-> d, trace |-> tr, ret |-> r]

(***************************************************************************)
(* The functions of setup_migration.py.  Each takes the database state d   *)
(* and the set F of the statements (numbered in the order the function     *)
(* would issue them) that the environment fails during this call.          *)
(***************************************************************************)
AfterFirst(F, k) == { n - k : n \in { m \in F : m > k } }

\* get_table_schema: the columns of information_schema.columns as dicts
get_table_schema(d, table, inject) ==
    LET e == Execute(d, Statement("SELECT_COLUMNS", "source", table, FALSE, NoBody),
                     inject)
        rows == IF table \in DOMAIN src THEN src[table].cols ELSE <<>>
    IN  [ok |-> e.ok,
         columns |-> IF e.ok
                     THEN [i \in 1..Len(rows) |->
                             [name |-> rows[i].column_name,
                              type |-> rows[i].column_type,
                              nullable |-> (rows[i].is_nullable = "YES"),
                              is_primary |-> (rows[i].column_key = "PRI")]]
                     ELSE <<>>,
         trace |-> <<CursorOpened, e.ev, CursorClosed>>]

IsPrimary(col) == col.is_primary

\* the flagged columns, last first
PrimaryKeyNamesReversed(columns) ==
    LET p == SelectSeq(columns, IsPrimary)
    IN  [i \in 1..Len(p) |-> p[Len(p) + 1 - i].name]

\* [col['name'] for col in columns if col['is_primary']]
PrimaryKeyNames(columns) ==
    LET p == SelectSeq(columns, IsPrimary)
    IN  [i \in 1..Len(p) |-> p[i].name]

\* args.mariadb_verbose: a store_true option, off unless given
mariadb_verbose == FALSE

\* the mirror table created unconditionally
MirrorTableStatementUnconditional(table, column_defs, primary_keys) ==
    Statement("CREATE_TABLE", "mirror", table, FALSE,
              [cols |-> column_defs, pk |-> primary_keys,
               comment |-> [scylla_hosts |-> "scylla_fdw_host",
                            scylla_keyspace |-> "scylla_ks",
                            scylla_table |-> table,
                            scylla_verbose |-> mariadb_verbose]])

\* CREATE TABLE IF NOT EXISTS `scylla_database`.`table` (...) ENGINE=SCYLLA COMMENT=...
MirrorTableStatement(table, column_defs, primary_keys) ==
    Statement("CREATE_TABLE", "mirror", table, TRUE,
              [cols |-> column_defs, pk |-> primary_keys,
               comment |-> [scylla_hosts |-> "scylla_fdw_host",
                            scylla_keyspace |-> "scylla_ks",
                            scylla_table |-> table,
                            scylla_verbose |-> mariadb_verbose]])

\* F: 1 = the column query, 2 = CREATE TABLE
create_mariadb_scylla_table(d, table, F) ==
    LET q == get_table_schema(d, table, 1 \in F)
        columns == q.columns
        column_defs == [i \in 1..Len(columns) |->
                          [name |-> columns[i].name, type |-> columns[i].type,
                           not_null |-> ~columns[i].nullable]]
        primary_keys == PrimaryKeyNames(columns)
        e == Execute(d, MirrorTableStatement(table, column_defs, primary_keys),
                     2 \in F)
    IN  IF ~q.ok
        THEN Outcome(d, <<CursorOpened>> \o q.trace \o
                        <<Printed("error creating table"), CursorClosed>>, "False")
        ELSE IF columns = <<>>
        THEN Outcome(d, <<CursorOpened>> \o q.trace \o
                        <<Printed("no columns found"), CursorClosed>>, "False")
        ELSE IF e.ok
        THEN Outcome(e.db, <<CursorOpened>> \o q.trace \o
                        <<Printed("creating table"), e.ev, Printed("table created"),
                          CursorClosed>>, "True")
        ELSE Outcome(d, <<CursorOpened>> \o q.trace \o
                        <<Printed("creating table"), e.ev,
                          Printed("error creating table"), CursorClosed>>, "False")

TriggerTypes == <<"insert", "update", "delete">>

\* f"{table}_{trigger_type}_trigger"
TriggerName(table, trigger_type) == <<table, trigger_type, "trigger">>

\* the statement that drops nothing the creates below will need dropped
DropTriggerStatementOther(table, trigger_type) ==
    Statement("DROP_TRIGGER", "source", table, TRUE,
              [name |-> <<table, trigger_type, "trg">>])

\* the drop without IF EXISTS
DropTriggerStatementUnconditional(table, trigger_type) ==
    Statement("DROP_TRIGGER", "source", table, FALSE,
              [name |-> TriggerName(table, trigger_type)])

\* DROP TRIGGER IF EXISTS `source_database`.`trigger_name`
DropTriggerStatement(table, trigger_type) ==
    Statement("DROP_TRIGGER", "source", table, TRUE,
              [name |-> TriggerName(table, trigger_type)])

\* the WHERE clause testing the key columns against the new row
WhereClauseNew(primary_keys) ==
    [i \in 1..Len(primary_keys) |->
        [col |-> primary_keys[i], ref |-> "NEW", of |-> primary_keys[i]]]

\* ' AND '.join([f"`{pk}` = OLD.`{pk}`" for pk in primary_keys])
WhereClause(primary_keys) ==
    [i \in 1..Len(primary_keys) |->
        [col |-> primary_keys[i], ref |-> "OLD", of |-> primary_keys[i]]]

\* cursor.execute("DELIMITER $$") / cursor.execute("DELIMITER ;")
DelimiterStatement(table, delimiter) ==
    Statement("DELIMITER", "source", table, FALSE, [delimiter |-> delimiter])

NewValues(col_names) ==
    [i \in 1..Len(col_names) |->
        [col |-> col_names[i], ref |-> "NEW", of |-> col_names[i]]]

\* CREATE TRIGGER `table_insert_trigger` AFTER INSERT ... INSERT INTO mirror (cols) VALUES (NEW.cols)
InsertTriggerStatement(table, col_names) ==
    Statement("CREATE_TRIGGER", "source", table, FALSE,
              [name |-> TriggerName(table, "insert"), table |-> table,
               timing |-> "AFTER", event |-> "INSERT", action |-> "INSERT",
               assign |-> NewValues(col_names), where |-> <<>>])

\* CREATE TRIGGER `table_update_trigger` AFTER UPDATE ... UPDATE mirror SET cols = NEW.cols WHERE where_clause
UpdateTriggerStatement(table, col_names, where_clause) ==
    Statement("CREATE_TRIGGER", "source", table, FALSE,
              [name |-> TriggerName(table, "update"), table |-> table,
               timing |-> "AFTER", event |-> "UPDATE", action |-> "UPDATE",
               assign |-> NewValues(col_names), where |-> where_clause])

\* CREATE TRIGGER `table_delete_trigger` AFTER DELETE ... DELETE FROM mirror WHERE where_clause
DeleteTriggerStatement(table, where_clause) ==
    Statement("CREATE_TRIGGER", "source", table, FALSE,
              [name |-> TriggerName(table, "delete"), table |-> table,
               timing |-> "AFTER", event |-> "DELETE", action |-> "DELETE",
               assign |-> <<>>, where |-> where_clause])

Step(n, stmt) == [ev |-> "step", n |-> n, stmt |-> stmt]

RECURSIVE RunUntilFailure(_, _, _, _)
\* the statements and prints items[k..] in order, up to and including the
\* first statement that fails
RunUntilFailure(d, items, k, F) ==
    IF k > Len(items) THEN [db |-> d, trace |-> <<>>, ok |-> TRUE]
    ELSE IF items[k].ev = "print"
    THEN LET r == RunUntilFailure(d, items, k + 1, F)
         IN  [r EXCEPT !.trace = <<items[k]>> \o @]
    ELSE LET e == Execute(d, items[k].stmt, items[k].n \in F)
         IN  IF ~e.ok THEN [db |-> e.db, trace |-> <<e.ev>>, ok |-> FALSE]
             ELSE LET r == RunUntilFailure(e.db, items, k + 1, F)
                  IN  [r EXCEPT !.trace = <<e.ev>> \o @]

\* F: 1 = the column query, 2..4 = the three drops, 5..13 = DELIMITER $$,
\* CREATE TRIGGER, DELIMITER ; for insert, update and delete
create_replication_triggers(d, table, F) ==
    LET q == get_table_schema(d, table, 1 \in F)
        columns == q.columns
        col_names == [i \in 1..Len(columns) |-> columns[i].name]
        primary_keys == PrimaryKeyNames(columns)
        where_clause == WhereClause(primary_keys)
        d1 == Execute(d, DropTriggerStatement(table, TriggerTypes[1]), 2 \in F)
        d2 == Execute(d1.db, DropTriggerStatement(table, TriggerTypes[2]), 3 \in F)
        d3 == Execute(d2.db, DropTriggerStatement(table, TriggerTypes[3]), 4 \in F)
        creates ==
            << Step(5, DelimiterStatement(table, "$$")),
               Step(6, InsertTriggerStatement(table, col_names)),
               Step(7, DelimiterStatement(table, ";")),
               Printed("INSERT trigger created"),
               Step(8, DelimiterStatement(table, "$$")),
               Step(9, UpdateTriggerStatement(table, col_names, where_clause)),
               Step(10, DelimiterStatement(table, ";")),
               Printed("UPDATE trigger created"),
               Step(11, DelimiterStatement(table, "$$")),
               Step(12, DeleteTriggerStatement(table, where_clause)),
               Step(13, DelimiterStatement(table, ";")),
               Printed("DELETE trigger created") >>
        r == RunUntilFailure(d3.db, creates, 1, F)
        head == <<CursorOpened>> \o q.trace
    IN  IF ~q.ok
        THEN Outcome(d, head \o <<Printed("error creating triggers"), CursorClosed>>,
                     "False")
        ELSE IF columns = <<>>
        THEN Outcome(d, head \o <<Printed("no columns found"), CursorClosed>>,
                     "False")
        ELSE IF primary_keys = <<>>
        THEN Outcome(d, head \o <<Printed("no primary key found"), CursorClosed>>,
                     "False")
        ELSE IF r.ok
        THEN Outcome(r.db, head \o <<d1.ev, d2.ev, d3.ev,
                             Printed("creating replication triggers")>> \o r.trace
                           \o <<CursorClosed>>, "True")
        ELSE Outcome(r.db, head \o <<d1.ev, d2.ev, d3.ev,
                             Printed("creating replication triggers")>> \o r.trace
                           \o <<Printed("error creating triggers"), CursorClosed>>,
                     "False")

\* CREATE KEYSPACE IF NOT EXISTS; an error is printed and raised again
create_keyspace(d, inject) ==
    LET e == Execute(d, Statement("CREATE_KEYSPACE", "scylla", "", TRUE, NoBody),
                     inject)
    IN  IF e.ok THEN Outcome(e.db, <<e.ev, Printed("keyspace ready")>>, "None")
        ELSE Outcome(d, <<e.ev, Printed("error creating keyspace")>>, "raise")

RECURSIVE TypeWarnings(_, _)
\* the warnings mariadb_type_to_cql_type printed for mapped[k..], in order
TypeWarnings(mapped, k) ==
    IF k > Len(mapped) THEN <<>>
    ELSE [i \in 1..Len(mapped[k].diag) |-> Printed("unknown type")]
         \o TypeWarnings(mapped, k + 1)

\* the statement and the prints of create_scylla_table, given what
\* mariadb_type_to_cql_type returned for each column
ScyllaTableStatement(d, table_name, columns, pk_columns, mapped, inject) ==
    LET col_defs == [i \in 1..Len(columns) |->
                       [name |-> columns[i].Field, type |-> mapped[i].type]]
        cql == Statement("CREATE_TABLE", "scylla", table_name, TRUE,
                         [cols |-> col_defs, pk |-> pk_columns])
        e == Execute(d, cql, inject)
        head == <<Printed("creating ScyllaDB table")>> \o TypeWarnings(mapped, 1)
    IN  IF e.ok
        THEN Outcome(e.db, head \o <<e.ev, Printed("ScyllaDB table created")>>, "None")
        ELSE Outcome(d, head \o <<e.ev, Printed("error creating ScyllaDB table")>>,
                     "raise")

\* create_scylla_table: CREATE TABLE IF NOT EXISTS keyspace.table (cols, PRIMARY KEY (pk_columns));
\* an error is printed and raised again
create_scylla_table(d, table_name, columns, pk_columns, inject) ==
    CHOOSE o \in
        { ScyllaTableStatement(d, table_name, columns, pk_columns, mapped, inject) :
            mapped \in { SubSeq([i \in 1..Len(columns) |->
                                   mariadb_type_to_cql_type(columns[i].Type)],
                                1, Len(columns)) } } : TRUE

\* the rows of SHOW FULL COLUMNS, as dicts
ShowFullColumns(table_name) ==
    [i \in 1..Len(src[table_name].cols) |->
        [Field |-> src[table_name].cols[i].column_name,
         Type |-> src[table_name].cols[i].column_type]]

\* F: 1 = SHOW FULL COLUMNS, 2 = the primary-key query, 3 = CREATE KEYSPACE,
\* 4 = CREATE TABLE (ScyllaDB), 5..6 = create_mariadb_scylla_table,
\* 7..19 = create_replication_triggers
setup_table_migration(d, table_name, F) ==
    LET show == Execute(d, Statement("SHOW_COLUMNS", "source", table_name, FALSE,
                                     NoBody), 1 \in F)
        keys == Execute(d, Statement("SELECT_PK", "source", table_name, FALSE,
                                     NoBody), 2 \in F)
        columns == ShowFullColumns(table_name)
        pk_columns == src[table_name].pk
        ks == create_keyspace(d, 3 \in F)
        st == create_scylla_table(ks.db, table_name, columns, pk_columns, 4 \in F)
        mt == create_mariadb_scylla_table(st.db, table_name, AfterFirst(F, 4))
        tg == create_replication_triggers(mt.db, table_name, AfterFirst(F, 6))
        head == <<CursorOpened, Printed("getting table structure"), show.ev>>
    IN  IF ~show.ok THEN Outcome(d, head \o <<CursorClosed>>, "raise")
        ELSE IF ~keys.ok THEN Outcome(d, head \o <<keys.ev, CursorClosed>>, "raise")
        ELSE IF pk_columns = <<>>
        THEN Outcome(d, head \o <<keys.ev, Printed("no primary key, skipping"),
                                  CursorClosed>>, "None")
        ELSE IF ks.ret = "raise"
        THEN Outcome(ks.db, head \o <<keys.ev>> \o ks.trace \o <<CursorClosed>>,
                     "raise")
        ELSE IF st.ret = "raise"
        THEN Outcome(st.db, head \o <<keys.ev>> \o ks.trace \o st.trace
                            \o <<CursorClosed>>, "raise")
        ELSE Outcome(tg.db, head \o <<keys.ev>> \o ks.trace \o st.trace
                            \o mt.trace \o tg.trace \o <<CursorClosed>>, "None")

\* the guard dropped: the copy is issued whatever the count
NoRowsIgnored(row_count) == FALSE

\* if row_count == 0
NoRows(row_count) == row_count = 0

\* F: 1 = SELECT COUNT(*), 2 = INSERT ... SELECT
migrate_table_data(d, table_name, F) ==
    LET cnt == Execute(d, Statement("SELECT_COUNT", "source", table_name, FALSE,
                                    NoBody), 1 \in F)
        row_count == Cardinality(src[table_name].rows)
        copy == Execute(d, Statement("INSERT_SELECT", "mirror", table_name, FALSE,
                                     NoBody), 2 \in F)
        head == <<CursorOpened, Printed("migrating existing data"), cnt.ev>>
    IN  IF ~cnt.ok
        THEN Outcome(d, head \o <<Printed("error migrating table data"),
                                  CursorClosed>>, "None")
        ELSE IF NoRows(row_count)
        THEN Outcome(d, head \o <<Printed("no data in source table"),
                                  CursorClosed>>, "None")
        ELSE IF copy.ok
        THEN Outcome(copy.db, head \o <<Printed("copying rows"), copy.ev,
                                        Printed("migrated rows"), CursorClosed>>,
                     "None")
        ELSE Outcome(d, head \o <<Printed("copying rows"), copy.ev,
                                  Printed("error migrating table data"),
                                  CursorClosed>>, "None")

\* CREATE DATABASE IF NOT EXISTS; an error is printed and raised again
create_scylla_database(d, inject) ==
    LET e == Execute(d, Statement("CREATE_DATABASE", "mirror", "", TRUE, NoBody),
                     inject)
    IN  IF e.ok
        THEN Outcome(e.db, <<CursorOpened, Printed("creating database"), e.ev,
                             Printed("database ready"), CursorClosed>>, "None")
        ELSE Outcome(d, <<CursorOpened, Printed("creating database"), e.ev,
                          Printed("error creating database"), CursorClosed>>, "raise")

RECURSIVE OrderDescending(_)
\* the names from last to first
OrderDescending(names) ==
    IF names = {} THEN <<>>
    ELSE LET first == CHOOSE t \in names :
                         \A u \in names : NameRank(u) <= NameRank(t)
         IN  <<first>> \o OrderDescending(names \ {first})

RECURSIVE OrderByName(_)
\* ORDER BY table_name
OrderByName(names) ==
    IF names = {} THEN <<>>
    ELSE LET first == CHOOSE t \in names :
                         \A u \in names : NameRank(t) <= NameRank(u)
         IN  <<first>> \o OrderByName(names \ {first})

\* get_source_tables: the base tables of the source database, by name
get_source_tables(d, inject) ==
    LET e == Execute(d, Statement("SELECT_TABLES", "source", "", FALSE, NoBody),
                     inject)
    IN  [ok |-> e.ok,
         tables |-> IF e.ok THEN OrderByName(DOMAIN src) ELSE <<>>,
         trace |-> <<CursorOpened, e.ev, CursorClosed>>]

(***************************************************************************)
(* The environment: which statements of a call it fails.  A choice F is    *)
(* taken only when every statement in it is one the call reaches, and      *)
(* while the behaviour has failures left to spend (MaxFaults).             *)
(***************************************************************************)
MirrorFaults == { {}, {1}, {2} }

TriggerFaults ==
    { D \cup X : D \in SUBSET {2, 3, 4},
                 X \in { {} } \cup { {k} : k \in {1} \cup (5..13) } }

SetupFaults ==
    { {1}, {2}, {3}, {4} } \cup
    { { m + 4 : m \in M } \cup { n + 6 : n \in T } :
        M \in MirrorFaults, T \in TriggerFaults }

MigrateFaults == { {}, {1}, {2} }

\* how many statements of a trace the environment failed
Injected(tr) ==
    Cardinality({ i \in 1..Len(tr) : tr[i].ev = "execute" /\ tr[i].injected })

AnyRefused(tr) == \E i \in 1..Len(tr) : tr[i].ev = "execute" /\ tr[i].refused

\* F is spent in full by the call that left trace tr
Allowed(F, tr) == Injected(tr) = Cardinality(F)

Call(fn, table) == [fn |-> fn, table |-> table]

RunFault == "(run)"

\* a table is fully configured: target table, mirror table, the three
\* triggers, and the mirror holding the source rows
Configured(d, t) ==
    /\ HasTable(d.scylla, t)
    /\ HasTable(d.mirror, t)
    /\ \A i \in 1..3 : HasTrigger(d, TriggerName(t, TriggerTypes[i]))
    /\ TheTable(d.mirror, t).rows = src[t].rows

\* the objects of table t
ObjectsOf(d, t) ==
    [scylla |-> { x \in d.scylla : x.name = t },
     mirror |-> { x \in d.mirror : x.name = t },
     triggers |-> { g \in d.triggers : g.table = t }]

NoObjects == [scylla |-> {}, mirror |-> {}, triggers |-> {}]

NoBaseline ==
    [clean |-> {}, partial |-> {}, objects |-> [t \in TableNames |-> NoObjects],
     order |-> <<>>]

\* what the run that just ended leaves for the next one to be compared with:
\* the tables it processed without any failure, the tables a failure left
\* partly configured, the objects of every table, and the table list it read
Snapshot ==
    LET clean == IF pc = "done" /\ RunFault \notin (faulted \cup refused)
                 THEN { t \in DOMAIN src : t \notin faulted /\ t \notin refused }
                 ELSE {}
    IN  [clean |-> clean,
         partial |-> { t \in DOMAIN src :
                         /\ t \in faulted
                         /\ src[t].pk # <<>>
                         /\ ~Configured(db, t) },
         objects |-> [t \in TableNames |->
                        IF t \in DOMAIN src THEN ObjectsOf(db, t) ELSE NoObjects],
         order |-> tables]

Init ==
    /\ mtIn = <<>>
    /\ mtRes = NoResult
    /\ mtAgain = NoResult
    /\ src \in SourceDatabases
    /\ db = EmptyDb
    /\ pc = "connect_to_mariadb"
    /\ tables = <<>>
    /\ idx = 0
    /\ conn = "none"
    /\ session = "none"
    /\ trace = <<>>
    /\ ret = "None"
    /\ calls = <<>>
    /\ faulted = {}
    /\ refused = {}
    /\ faults = 0
    /\ runNo = 1
    /\ baseline = NoBaseline
    /\ NoHealthCheck

\* the failure printed, and the run going on without the connection
AfterConnectGoesOn(ok, next) == next

\* except Exception: print(...); sys.exit(1)
AfterConnect(ok, next) == IF ok THEN next ELSE "exit1"

\* main, line 24: a failed connection prints and exits with status 1
ConnectToMariadb ==
    /\ pc = "connect_to_mariadb"
    /\ \E ok \in BOOLEAN :
        /\ ok \/ faults < MaxFaults
        /\ conn' = IF ok THEN "open" ELSE "none"
        /\ pc' = AfterConnect(ok, "connect_to_scylla")
        /\ trace' = << Printed(IF ok THEN "connected to MariaDB"
                                     ELSE "failed to connect to MariaDB") >>
        /\ ret' = IF ok THEN "conn" ELSE "exit"
        /\ faulted' = IF ok THEN faulted ELSE faulted \cup {RunFault}
        /\ faults' = IF ok THEN faults ELSE faults + 1
    /\ calls' = Append(calls, Call("connect_to_mariadb", ""))
    /\ UNCHANGED <<src, db, tables, idx, session, refused, runNo, baseline>>
    /\ UNCHANGED mapvars
    /\ UNCHANGED healthvars
    /\ UNCHANGED containervars

\* main, line 25
ConnectToScylla ==
    /\ pc = "connect_to_scylla"
    /\ \E ok \in BOOLEAN :
        /\ ok \/ faults < MaxFaults
        /\ session' = IF ok THEN "open" ELSE "none"
        /\ pc' = AfterConnect(ok, "configure_storage_engine")
        /\ trace' = << Printed(IF ok THEN "connected to ScyllaDB"
                                     ELSE "failed to connect to ScyllaDB") >>
        /\ ret' = IF ok THEN "session" ELSE "exit"
        /\ faulted' = IF ok THEN faulted ELSE faulted \cup {RunFault}
        /\ faults' = IF ok THEN faults ELSE faults + 1
    /\ calls' = Append(calls, Call("connect_to_scylla", ""))
    /\ UNCHANGED <<src, db, tables, idx, conn, refused, runNo, baseline>>
    /\ UNCHANGED mapvars
    /\ UNCHANGED healthvars
    /\ UNCHANGED containervars

\* main, line 29: prints only
ConfigureStorageEngine ==
    /\ pc = "configure_storage_engine"
    /\ pc' = "create_scylla_database"
    /\ trace' = << Printed("using per-table connection configuration") >>
    /\ ret' = "None"
    /\ calls' = Append(calls, Call("configure_storage_engine", ""))
    /\ UNCHANGED <<src, db, tables, idx, conn, session, faulted, refused, faults,
                   runNo, baseline>>
    /\ UNCHANGED mapvars
    /\ UNCHANGED healthvars
    /\ UNCHANGED containervars

\* main, line 33: the exception create_scylla_database raises again ends main
CreateScyllaDatabase ==
    /\ pc = "create_scylla_database"
    /\ \E inject \in BOOLEAN :
        LET o == create_scylla_database(db, inject)
        IN  /\ inject => faults < MaxFaults
            /\ db' = o.db
            /\ trace' = o.trace
            /\ ret' = o.ret
            /\ pc' = IF o.ret = "raise" THEN "raised" ELSE "get_source_tables"
            /\ faulted' = IF inject THEN faulted \cup {RunFault} ELSE faulted
            /\ refused' = IF AnyRefused(o.trace) THEN refused \cup {RunFault}
                          ELSE refused
            /\ faults' = faults + Injected(o.trace)
    /\ calls' = Append(calls, Call("create_scylla_database", ""))
    /\ UNCHANGED <<src, tables, idx, conn, session, runNo, baseline>>
    /\ UNCHANGED mapvars
    /\ UNCHANGED healthvars
    /\ UNCHANGED containervars

\* main, lines 37-45: no table, exit with status 0
GetSourceTables ==
    /\ pc = "get_source_tables"
    /\ \E inject \in BOOLEAN :
        LET q == get_source_tables(db, inject)
        IN  /\ inject => faults < MaxFaults
            /\ trace' = q.trace
            /\ ret' = IF q.ok THEN "tables" ELSE "raise"
            /\ tables' = q.tables
            /\ idx' = IF q.ok /\ q.tables # <<>> THEN 1 ELSE 0
            /\ pc' = IF ~q.ok THEN "raised"
                     ELSE IF q.tables = <<>> THEN "exit0"
                     ELSE "setup_table_migration"
            /\ faulted' = IF inject THEN faulted \cup {RunFault} ELSE faulted
            /\ faults' = faults + Injected(q.trace)
    /\ calls' = Append(calls, Call("get_source_tables", ""))
    /\ UNCHANGED <<src, db, conn, session, refused, runNo, baseline>>
    /\ UNCHANGED mapvars
    /\ UNCHANGED healthvars
    /\ UNCHANGED containervars

\* main, lines 47-49: one pass of the first loop; an exception leaving
\* setup_table_migration ends main
SetupTableMigration ==
    /\ pc = "setup_table_migration"
    /\ \E F \in { G \in SetupFaults : faults + Cardinality(G) <= MaxFaults } :
        \E o \in { setup_table_migration(db, tables[idx], F) } :
            /\ Allowed(F, o.trace)
            /\ db' = o.db
            /\ trace' = o.trace
            /\ ret' = o.ret
            /\ pc' = IF o.ret = "raise" THEN "raised"
                     ELSE IF idx = Len(tables) THEN "migrate_table_data"
                     ELSE "setup_table_migration"
            /\ idx' = IF o.ret = "raise" THEN idx
                      ELSE IF idx = Len(tables) THEN 1
                      ELSE idx + 1
            /\ faulted' = IF F # {} THEN faulted \cup {tables[idx]} ELSE faulted
            /\ refused' = IF AnyRefused(o.trace) THEN refused \cup {tables[idx]}
                          ELSE refused
            /\ faults' = faults + Injected(o.trace)
    /\ calls' = Append(calls, Call("setup_table_migration", tables[idx]))
    /\ UNCHANGED <<src, tables, conn, session, runNo, baseline>>
    /\ UNCHANGED mapvars
    /\ UNCHANGED healthvars
    /\ UNCHANGED containervars

\* main, lines 53-54: one pass of the second loop
MigrateTableData ==
    /\ pc = "migrate_table_data"
    /\ \E F \in { G \in MigrateFaults : faults + Cardinality(G) <= MaxFaults } :
        \E o \in { migrate_table_data(db, tables[idx], F) } :
            /\ Allowed(F, o.trace)
            /\ db' = o.db
            /\ trace' = o.trace
            /\ ret' = o.ret
            /\ faulted' = IF F # {} THEN faulted \cup {tables[idx]} ELSE faulted
            /\ refused' = IF AnyRefused(o.trace) THEN refused \cup {tables[idx]}
                          ELSE refused
            /\ faults' = faults + Injected(o.trace)
    /\ pc' = IF idx = Len(tables) THEN "cleanup" ELSE "migrate_table_data"
    /\ idx' = IF idx = Len(tables) THEN idx ELSE idx + 1
    /\ calls' = Append(calls, Call("migrate_table_data", tables[idx]))
    /\ UNCHANGED <<src, tables, conn, session, runNo, baseline>>
    /\ UNCHANGED mapvars
    /\ UNCHANGED healthvars
    /\ UNCHANGED containervars

\* main, lines 57-58
Cleanup ==
    /\ pc = "cleanup"
    /\ conn' = "closed"
    /\ session' = "closed"
    /\ pc' = "done"
    /\ trace' = << Printed("migration setup completed") >>
    /\ ret' = "None"
    /\ UNCHANGED <<src, db, tables, idx, calls, faulted, refused, faults, runNo,
                   baseline>>
    /\ UNCHANGED mapvars
    /\ UNCHANGED healthvars
    /\ UNCHANGED containervars

Ended == pc \in {"done", "exit0", "exit1", "raised"}

\* the tool is started again on the databases the previous run left
RunAgain ==
    /\ Ended
    /\ runNo < MaxRuns
    /\ runNo' = runNo + 1
    /\ baseline' = Snapshot
    /\ pc' = "connect_to_mariadb"
    /\ tables' = <<>>
    /\ idx' = 0
    /\ conn' = "none"
    /\ session' = "none"
    /\ trace' = <<>>
    /\ ret' = "None"
    /\ calls' = <<>>
    /\ faulted' = {}
    /\ refused' = {}
    /\ UNCHANGED <<src, db, faults>>
    /\ UNCHANGED mapvars
    /\ UNCHANGED healthvars
    /\ UNCHANGED containervars

Next ==
    \/ ConnectToMariadb
    \/ ConnectToScylla
    \/ ConfigureStorageEngine
    \/ CreateScyllaDatabase
    \/ GetSourceTables
    \/ SetupTableMigration
    \/ MigrateTableData
    \/ Cleanup
    \/ RunAgain

Spec == Init /\ [][Next]_vars

(***************************************************************************)
(* The generators called on their own, in any order, on one table name of  *)
(* a source database whose mirror database and keyspace exist; the source  *)
(* database may have no table of that name.                                *)
(***************************************************************************)
InitDirect ==
    /\ mtIn = <<>>
    /\ mtRes = NoResult
    /\ mtAgain = NoResult
    /\ src \in [TableNames -> SourceTables] \cup [{"animals"} -> SourceTables]
    /\ db = [EmptyDb EXCEPT !.mirrorDb = TRUE, !.keyspace = TRUE]
    /\ pc = "direct"
    /\ \E t \in TableNames : tables = <<t>>
    /\ idx = 1
    /\ conn = "open"
    /\ session = "open"
    /\ trace = <<>>
    /\ ret = "None"
    /\ calls = <<>>
    /\ faulted = {}
    /\ refused = {}
    /\ faults = 0
    /\ runNo = 1
    /\ baseline = NoBaseline
    /\ NoHealthCheck

\* what a direct call leaves: its outcome o, under the name fn
Returned(fn, o) ==
    /\ db' = o.db
    /\ trace' = o.trace
    /\ ret' = o.ret
    /\ calls' = << Call(fn, tables[idx]) >>
    /\ faults' = faults + Injected(o.trace)
    /\ faulted' = IF Injected(o.trace) > 0 THEN faulted \cup {tables[idx]}
                  ELSE faulted
    /\ refused' = IF AnyRefused(o.trace) THEN refused \cup {tables[idx]}
                  ELSE refused
    /\ UNCHANGED <<src, pc, tables, idx, conn, session, runNo, baseline>>
    /\ UNCHANGED mapvars
    /\ UNCHANGED healthvars
    /\ UNCHANGED containervars

CallCreateScyllaTable ==
    /\ pc = "direct"
    /\ tables[idx] \in DOMAIN src
    /\ \E inject \in { b \in BOOLEAN : b => faults < MaxFaults } :
        \E o \in { create_scylla_table(db, tables[idx], ShowFullColumns(tables[idx]),
                                       src[tables[idx]].pk, inject) } :
            Returned("create_scylla_table", o)

CallCreateMariadbScyllaTable ==
    /\ pc = "direct"
    /\ \E F \in { G \in MirrorFaults : faults + Cardinality(G) <= MaxFaults } :
        \E o \in { create_mariadb_scylla_table(db, tables[idx], F) } :
            /\ Allowed(F, o.trace)
            /\ Returned("create_mariadb_scylla_table", o)

CallCreateReplicationTriggers ==
    /\ pc = "direct"
    /\ \E F \in { G \in TriggerFaults : faults + Cardinality(G) <= MaxFaults } :
        \E o \in { create_replication_triggers(db, tables[idx], F) } :
            /\ Allowed(F, o.trace)
            /\ Returned("create_replication_triggers", o)

CallMigrateTableData ==
    /\ pc = "direct"
    /\ \E F \in { G \in MigrateFaults : faults + Cardinality(G) <= MaxFaults } :
        \E o \in { migrate_table_data(db, tables[idx], F) } :
            /\ Allowed(F, o.trace)
            /\ Returned("migrate_table_data", o)

NextDirect ==
    \/ CallCreateScyllaTable
    \/ CallCreateMariadbScyllaTable
    \/ CallCreateReplicationTriggers
    \/ CallMigrateTableData

SpecDirect == InitDirect /\ [][NextDirect]_vars

(***************************************************************************)
(* The inputs the type mapper is applied to: every key of the table and a  *)
(* few keywords it does not know, bare, with a parameter suffix, with a    *)
(* leading character that defeats the prefix match, and in upper case.     *)
(***************************************************************************)
OtherBases ==
    { <<"j","s","o","n">>, <<"e","n","u","m">>, <<"b","i","t">>,
      <<"y","e","a","r">>, T_uuid, <<"i","n","t","e","g","e","r">> }

TypeBases == { MappingKeys[i] : i \in 1..Len(MappingKeys) } \cup OtherBases

TypeSuffixes ==
    { <<>>, <<"(","1","6",")">>, <<"(","3","6",")">>, <<"(","1","0",")">> }

TypePrefixes == { <<>>, <<"x">> }

TypeInputs ==
    LET lower == { p \o b \o s : p \in TypePrefixes, b \in TypeBases,
                                 s \in TypeSuffixes }
    IN  lower \cup { Upper(s) : s \in lower }

\* the argument is drawn from the inputs; nothing was called yet
MapInit ==
    /\ mtIn \in TypeInputs
    /\ mtRes = NoResult
    /\ mtAgain = NoResult
    /\ src = [t \in {} |-> <<>>]
    /\ db = EmptyDb
    /\ pc = "map_type"
    /\ tables = <<>>
    /\ idx = 0
    /\ conn = "none"
    /\ session = "none"
    /\ trace = <<>>
    /\ ret = "None"
    /\ calls = <<>>
    /\ faulted = {}
    /\ refused = {}
    /\ faults = 0
    /\ runNo = 0
    /\ baseline = NoBaseline
    /\ NoHealthCheck

\* one call of mariadb_type_to_cql_type on the argument
MapType ==
    /\ mtRes = NoResult
    /\ mtRes' = mariadb_type_to_cql_type(mtIn)
    /\ UNCHANGED <<mtIn, mtAgain>>
    /\ UNCHANGED runvars
    /\ UNCHANGED healthvars
    /\ UNCHANGED containervars

\* the returned type name fed back to mariadb_type_to_cql_type
MapTypeAgain ==
    /\ mtRes # NoResult
    /\ mtAgain = NoResult
    /\ mtAgain' = mariadb_type_to_cql_type(mtRes.type)
    /\ UNCHANGED <<mtIn, mtRes>>
    /\ UNCHANGED runvars
    /\ UNCHANGED healthvars
    /\ UNCHANGED containervars

MapNext == MapType \/ MapTypeAgain

SpecMap == MapInit /\ [][MapNext]_vars

(***************************************************************************)
(* start_db_containers.py: the two container health checks.  A probe is    *)
(* the body of the try; what it does is the environment's choice.          *)
(***************************************************************************)
max_attempts == 60

\* time.sleep(2)
sleep_seconds == 2

\* subprocess.run(["mariadb", ...], timeout=5): the return code, or the
\* exception it raises (OSError: any other than FileNotFoundError)
MariadbProbes ==
    {"returncode 0", "returncode nonzero", "TimeoutExpired", "FileNotFoundError",
     "OSError"}

\* container.exec_run(["nodetool", "status"]): the exit code and whether the
\* output holds "UN", or an exception
ScylladbProbes ==
    {"exit_code 0, UN", "exit_code 0, no UN", "exit_code nonzero", "Exception"}

ProbesOf(fn) ==
    IF fn = "check_mariadb_health" THEN MariadbProbes ELSE ScylladbProbes

\* result.returncode == 0 / result.exit_code == 0 and "UN" in output
Ready(p) == p \in {"returncode 0", "exit_code 0, UN"}

Raises(p) == p \in {"TimeoutExpired", "FileNotFoundError", "OSError", "Exception"}

\* except (subprocess.TimeoutExpired, FileNotFoundError) / except Exception
Caught(fn, p) ==
    IF fn = "check_mariadb_health"
    THEN p \in {"TimeoutExpired", "FileNotFoundError"}
    ELSE p = "Exception"

\* the sleep made after every probe, the last included
SleepsAlways(n) == TRUE

\* if attempt < max_attempts: time.sleep(2), after attempt += 1
SleepsAfter(n) == n < max_attempts

HealthInit ==
    /\ mtIn = <<>>
    /\ mtRes = NoResult
    /\ mtAgain = NoResult
    /\ src = [t \in {} |-> <<>>]
    /\ db = EmptyDb
    /\ pc = "wait_for_health"
    /\ tables = <<>>
    /\ idx = 0
    /\ conn = "none"
    /\ session = "none"
    /\ trace = <<>>
    /\ ret = "None"
    /\ calls = <<>>
    /\ faulted = {}
    /\ refused = {}
    /\ faults = 0
    /\ runNo = 0
    /\ baseline = NoBaseline
    /\ dockerd = NoContainer
    /\ manage = NotManaging
    /\ check \in {"check_mariadb_health", "check_scylladb_health"}
    /\ attempt = 0
    /\ probes = 0
    /\ slept = 0
    /\ probe = "none"
    /\ healthy = "pending"

\* one pass of `while attempt < max_attempts`, and the return that ends the
\* function when the pass is the last one
HealthAttempt ==
    /\ check # "none"
    /\ healthy = "pending"
    /\ attempt < max_attempts
    /\ \E p \in ProbesOf(check) :
        /\ probe' = p
        /\ probes' = probes + 1
        /\ IF Ready(p)
           THEN healthy' = "True" /\ UNCHANGED <<attempt, slept>>
           ELSE IF Raises(p) /\ ~Caught(check, p)
           THEN healthy' = "raise" /\ UNCHANGED <<attempt, slept>>
           ELSE /\ attempt' = attempt + 1
                /\ slept' = IF SleepsAfter(attempt + 1) THEN slept + sleep_seconds
                            ELSE slept
                /\ healthy' = IF attempt + 1 < max_attempts THEN "pending"
                              ELSE "False"
    /\ UNCHANGED check
    /\ UNCHANGED mapvars
    /\ UNCHANGED runvars
    /\ UNCHANGED containervars

HealthNext == HealthAttempt

\* the loop body takes its step whenever it can
SpecHealth == HealthInit /\ [][HealthNext]_vars /\ WF_vars(HealthAttempt)

(***************************************************************************)
(* manage_container and create_and_start_container, called by main for     *)
(* the MariaDB and the ScyllaDB container.  Docker is the environment: it  *)
(* holds the named container in some status or not at all, the image or    *)
(* not, and may fail any call with an APIError.                            *)
(***************************************************************************)
\* container.status, as the Docker API reports it
ContainerStatuses ==
    {"created", "restarting", "running", "removing", "paused", "exited", "dead"}

\* the db_type arguments main passes (lines 224 and 230)
DbTypes == {"mariadb", "scylla"}

\* wait_for_health: the check called for db_type, whose result is dropped;
\* how the call ends
HealthCheckOf(db_type) ==
    IF db_type = "mariadb" THEN "check_mariadb_health" ELSE "check_scylladb_health"

WaitOutcomes(db_type) ==
    {"True", "False"} \cup
    { "raise" : p \in { q \in ProbesOf(HealthCheckOf(db_type)) :
                          Raises(q) /\ ~Caught(HealthCheckOf(db_type), q) } }

\* if db_type: wait_for_health(...), then return container
AfterActing(db_type) == IF db_type # "None" THEN "wait_for_health" ELSE "return"

ContainerInit ==
    /\ mtIn = <<>>
    /\ mtRes = NoResult
    /\ mtAgain = NoResult
    /\ src = [t \in {} |-> <<>>]
    /\ db = EmptyDb
    /\ pc = "manage_container"
    /\ tables = <<>>
    /\ idx = 0
    /\ conn = "none"
    /\ session = "none"
    /\ trace = <<>>
    /\ ret = "None"
    /\ calls = <<>>
    /\ faulted = {}
    /\ refused = {}
    /\ faults = 0
    /\ runNo = 0
    /\ baseline = NoBaseline
    /\ check = "none"
    /\ attempt = 0
    /\ probes = 0
    /\ slept = 0
    /\ probe = "none"
    /\ healthy = "pending"
    /\ dockerd \in [status : ContainerStatuses \cup {"absent"}, image : BOOLEAN]
    /\ manage \in [db_type : DbTypes, at : {"containers.get"},
                   within : {"manage_container"}, did : {"nothing"},
                   waited : {FALSE}, returns : {"nothing"}]

\* a step of the call: Docker becomes d, the frame m
ContainerStep(d, m) ==
    /\ dockerd' = d
    /\ manage' = m
    /\ UNCHANGED mapvars
    /\ UNCHANGED runvars
    /\ UNCHANGED healthvars

\* sys.exit(1) / an exception leaving the function
Exits(how) == [manage EXCEPT !.at = how]

\* lines 278-310: client.containers.get(container_name) and the branch on
\* container.status; no branch for a status other than running, created,
\* exited, so the try block ends and the function returns None
ContainersGet ==
    /\ manage.at = "containers.get"
    /\ \E err \in {"none", "APIError"} :
        IF err = "APIError" THEN ContainerStep(dockerd, Exits("exit1"))
        ELSE IF dockerd.status = "absent"
        THEN ContainerStep(dockerd,
                 [manage EXCEPT !.at = "images.get",
                                !.within = "create_and_start_container"])
        ELSE IF dockerd.status = "running"
        THEN ContainerStep(dockerd,
                 [manage EXCEPT !.did = "found running",
                                !.at = AfterActing(manage.db_type)])
        ELSE IF dockerd.status \in {"created", "exited"}
        THEN ContainerStep(dockerd, [manage EXCEPT !.at = "container.start"])
        ELSE ContainerStep(dockerd,
                 [manage EXCEPT !.at = "returned", !.returns = "None"])

\* lines 294-296: container.start()
ContainerStart ==
    /\ manage.at = "container.start"
    /\ \E err \in {"none", "APIError"} :
        IF err = "APIError" THEN ContainerStep(dockerd, Exits("exit1"))
        ELSE ContainerStep([dockerd EXCEPT !.status = "running"],
                 [manage EXCEPT !.did = "started",
                                !.at = AfterActing(manage.db_type)])

\* lines 321-328: the image is looked up, and pulled when missing, unless
\* its name holds "mariadb-scylla" (the image main built)
ImagesGet ==
    /\ manage.at = "images.get"
    /\ \E err \in {"none", "APIError"} :
        IF manage.db_type = "mariadb"
        THEN err = "none" /\ ContainerStep(dockerd, [manage EXCEPT !.at = "containers.run"])
        ELSE IF err = "APIError" THEN ContainerStep(dockerd, Exits("exit1"))
        ELSE IF dockerd.image
        THEN ContainerStep(dockerd, [manage EXCEPT !.at = "containers.run"])
        ELSE ContainerStep(dockerd, [manage EXCEPT !.at = "images.pull"])

\* lines 326-328: client.images.pull(image_name)
ImagesPull ==
    /\ manage.at = "images.pull"
    /\ \E err \in {"none", "APIError"} :
        IF err = "APIError" THEN ContainerStep(dockerd, Exits("exit1"))
        ELSE ContainerStep([dockerd EXCEPT !.image = TRUE],
                           [manage EXCEPT !.at = "containers.run"])

\* lines 331-332: client.containers.run(**config); without the image the
\* call raises ImageNotFound, an APIError
ContainersRun ==
    /\ manage.at = "containers.run"
    /\ \E err \in {"none", "APIError"} :
        IF err = "APIError" \/ ~dockerd.image
        THEN ContainerStep(dockerd, Exits("exit1"))
        ELSE ContainerStep([dockerd EXCEPT !.status = "running"],
                 [manage EXCEPT !.did = "created",
                                !.at = AfterActing(manage.db_type)])

\* lines 288-291, 299-302, 337-340: wait_for_health, then return container.
\* An exception of the health check is caught in manage_container (except
\* Exception: exit 1); create_and_start_container catches APIError only
WaitForHealth ==
    /\ manage.at = "wait_for_health"
    /\ \E o \in WaitOutcomes(manage.db_type) :
        IF o = "raise"
        THEN ContainerStep(dockerd,
                 Exits(IF manage.within = "manage_container" THEN "exit1"
                       ELSE "raised"))
        ELSE ContainerStep(dockerd,
                 [manage EXCEPT !.waited = TRUE, !.at = "returned",
                                !.returns = "container"])

ContainerNext ==
    \/ ContainersGet
    \/ ContainerStart
    \/ ImagesGet
    \/ ImagesPull
    \/ ContainersRun
    \/ WaitForHealth

SpecContainer == ContainerInit /\ [][ContainerNext]_vars

\* the databases once create_scylla_database succeeded in a first run
FreshDb == [EmptyDb EXCEPT !.mirrorDb = TRUE]

(***************************************************************************)
(* Replication: single-row statements on a source table whose setup        *)
(* completed.  MariaDB runs the statement on the source table (rejecting a *)
(* duplicate primary key) and then fires the AFTER trigger installed for   *)
(* the event, which runs its statement on the mirror table.                *)
(***************************************************************************)
\* the position of column `name` in the source table t
SourcePosition(t, name) ==
    CHOOSE i \in 1..Len(src[t].cols) : src[t].cols[i].column_name = name

\* NEW.`of` / OLD.`of` in a trigger fired for the rows old and new
RowValue(t, x, old, new) ==
    (IF x.ref = "NEW" THEN new ELSE old)[SourcePosition(t, x.of)]

\* the rows of mirror table m a trigger's WHERE clause selects
Matching(t, m, where, old, new) ==
    { r \in m.rows :
        \A k \in 1..Len(where) :
            r[PositionOf(m.cols, where[k].col)] = RowValue(t, where[k], old, new) }

\* a row of m with the trigger's assignments made (base: the row before)
Assigned(t, m, assign, base, old, new) ==
    [i \in 1..Len(m.cols) |->
        IF \E k \in 1..Len(assign) : assign[k].col = m.cols[i].name
        THEN RowValue(t, assign[CHOOSE k \in 1..Len(assign) :
                                   assign[k].col = m.cols[i].name], old, new)
        ELSE base[i]]

\* the mirror table after the body of trigger g ran for the rows old and new:
\* INSERT INTO mirror (cols) VALUES (...); UPDATE mirror SET ... WHERE ...;
\* DELETE FROM mirror WHERE ...
TriggerBody(g, m, old, new) ==
    LET hit == Matching(g.table, m, g.where, old, new)
    IN  CASE g.action = "INSERT" ->
                [m EXCEPT !.rows = Upsert(m, { Assigned(g.table, m, g.assign, new,
                                                        old, new) })]
          [] g.action = "UPDATE" ->
                [m EXCEPT !.rows = (@ \ hit) \cup
                    { Assigned(g.table, m, g.assign, r, old, new) : r \in hit }]
          [] g.action = "DELETE" -> [m EXCEPT !.rows = @ \ hit]

\* the database after the triggers installed on table t for `event` fired
FireTriggers(d, t, event, old, new) ==
    LET fired == { g \in d.triggers : g.table = t /\ g.event = event }
    IN  IF fired = {} \/ ~HasTable(d.mirror, t) THEN d
        ELSE LET g == CHOOSE x \in fired : TRUE
                 m == TheTable(d.mirror, t)
             IN  [d EXCEPT !.mirror = (@ \ {m}) \cup {TriggerBody(g, m, old, new)}]

\* the rows a statement may write
RowValues(t) == [1..Len(src[t].cols) -> 1..MaxValue]

\* the primary-key value of a source row
SourceKey(t, row) ==
    [i \in 1..Len(src[t].pk) |-> row[SourcePosition(t, src[t].pk[i])]]

KeyedSchemas == { s \in Schemas : s.pk # <<>> }

\* a source table with a primary key, not yet set up
InitReplicate ==
    /\ mtIn = <<>>
    /\ mtRes = NoResult
    /\ mtAgain = NoResult
    /\ src \in [{"animals"} ->
                  { [cols |-> s.cols, pk |-> s.pk, rows |-> RowsOf(s, n)] :
                      s \in KeyedSchemas, n \in 0..MaxRows }]
    /\ db = FreshDb
    /\ pc = "setup_table_migration"
    /\ tables = <<"animals">>
    /\ idx = 1
    /\ conn = "closed"
    /\ session = "closed"
    /\ trace = <<>>
    /\ ret = "None"
    /\ calls = <<>>
    /\ faulted = {}
    /\ refused = {}
    /\ faults = 0
    /\ runNo = 1
    /\ baseline = NoBaseline
    /\ NoHealthCheck

\* main's two calls for the table, every statement of which succeeds:
\* setup_table_migration(...) then migrate_table_data(...)
SetupAndMigrate ==
    /\ pc = "setup_table_migration"
    /\ \E s \in { setup_table_migration(db, tables[idx], {}) } :
          \E m \in { migrate_table_data(s.db, tables[idx], {}) } :
              /\ db' = m.db
              /\ trace' = s.trace \o m.trace
              /\ ret' = m.ret
    /\ pc' = "replicate"
    /\ calls' = calls \o << Call("setup_table_migration", tables[idx]),
                            Call("migrate_table_data", tables[idx]) >>
    /\ UNCHANGED <<src, tables, idx, conn, session, faulted, refused, faults,
                   runNo, baseline>>
    /\ UNCHANGED mapvars
    /\ UNCHANGED healthvars
    /\ UNCHANGED containervars

\* what a statement on the source table leaves
Replicated(rows, d, what) ==
    /\ src' = [src EXCEPT ![tables[idx]].rows = rows]
    /\ db' = d
    /\ ret' = what
    /\ UNCHANGED <<pc, tables, idx, conn, session, trace, calls, faulted, refused,
                   faults, runNo, baseline>>
    /\ UNCHANGED mapvars
    /\ UNCHANGED healthvars
    /\ UNCHANGED containervars

\* INSERT INTO source VALUES (new)
InsertRow ==
    /\ pc = "replicate"
    /\ Cardinality(src[tables[idx]].rows) < MaxLiveRows
    /\ \E new \in RowValues(tables[idx]) :
        /\ \A r \in src[tables[idx]].rows :
              SourceKey(tables[idx], r) # SourceKey(tables[idx], new)
        /\ Replicated(src[tables[idx]].rows \cup {new},
                      FireTriggers(db, tables[idx], "INSERT", new, new), "insert")

\* UPDATE source SET ... WHERE primary key = that of old
UpdateRow ==
    /\ pc = "replicate"
    /\ \E old \in src[tables[idx]].rows, new \in RowValues(tables[idx]) :
        /\ new # old
        /\ \A r \in src[tables[idx]].rows \ {old} :
              SourceKey(tables[idx], r) # SourceKey(tables[idx], new)
        /\ Replicated((src[tables[idx]].rows \ {old}) \cup {new},
                      FireTriggers(db, tables[idx], "UPDATE", old, new),
                      IF SourceKey(tables[idx], old) = SourceKey(tables[idx], new)
                      THEN "update" ELSE "update of the key")

\* DELETE FROM source WHERE primary key = that of old
DeleteRow ==
    /\ pc = "replicate"
    /\ \E old \in src[tables[idx]].rows :
        Replicated(src[tables[idx]].rows \ {old},
                   FireTriggers(db, tables[idx], "DELETE", old, old), "delete")

NextReplicate == SetupAndMigrate \/ InsertRow \/ UpdateRow \/ DeleteRow

SpecReplicate == InitReplicate /\ [][NextReplicate]_vars

(***************************************************************************)
(* Properties.                                                             *)
(***************************************************************************)
Last(seq) == seq[Len(seq)]

\* the statements a trace executed (failed ones included) that satisfy Test
Issued(tr, Test(_)) ==
    { i \in 1..Len(tr) : tr[i].ev = "execute" /\ Test(tr[i].stmt) }

Says(tr, msg) == \E i \in 1..Len(tr) : tr[i].ev = "print" /\ tr[i].msg = msg

IsCopy(stmt) == stmt.op = "INSERT_SELECT" /\ stmt.target = "mirror"

IsMirrorOrTriggerDDL(stmt) ==
    \/ stmt.op = "CREATE_TABLE" /\ stmt.target = "mirror"
    \/ stmt.op \in {"DROP_TRIGGER", "CREATE_TRIGGER"}

\* the names of the tables with a setup call, and with a copy call, in this run
SetUp == { calls[j].table : j \in { k \in 1..Len(calls) :
                                      calls[k].fn = "setup_table_migration" } }

Copied == { calls[j].table : j \in { k \in 1..Len(calls) :
                                       calls[k].fn = "migrate_table_data" } }

\* C1: a failing step of one table's setup never ends the run: once the
\* table list was read, the run ends only after every table of the list had
\* its setup call and its copy call, and it ends by closing the connections.
C1_TableFailureNeverAborts ==
    (Ended /\ tables # <<>>) =>
        /\ pc = "done"
        /\ \A i \in 1..Len(tables) : tables[i] \in SetUp /\ tables[i] \in Copied

\* the objects a first run without any failure leaves for table t
FirstRunObjects(t) ==
    LET s == setup_table_migration(FreshDb, t, {})
    IN  ObjectsOf(migrate_table_data(s.db, t, {}).db, t)

ExactlyOnce(d, t) ==
    /\ d.keyspace
    /\ d.mirrorDb
    /\ Cardinality({ x \in d.scylla : x.name = t }) = 1
    /\ Cardinality({ x \in d.mirror : x.name = t }) = 1
    /\ \A e \in {"INSERT", "UPDATE", "DELETE"} :
          Cardinality({ g \in d.triggers : g.table = t /\ g.event = e }) = 1
    /\ TheTable(d.mirror, t).rows = src[t].rows

C3_RerunRepairs ==
    pc = "done" =>
        \A t \in baseline.partial :
            (t \notin faulted /\ RunFault \notin faulted) =>
                /\ Configured(db, t)
                /\ ExactlyOnce(db, t)
                /\ ObjectsOf(db, t) = FirstRunObjects(t)
                /\ t \notin refused

C3_Witness ==
    /\ pc = "done"
    /\ \E t \in baseline.partial :
          /\ t \notin faulted
          /\ src[t].rows # {}
          /\ \E g \in baseline.objects[t].triggers : TRUE
          /\ Configured(db, t)

\* C4: for a table with no primary-key column, no CREATE TABLE of the mirror
\* table and no DROP or CREATE TRIGGER is ever executed, and a call of the
\* mirror-table generator or of the trigger generator on such a table, whose
\* column query succeeded, reports the skip and returns False.
C4_NoKeyNoDDL ==
    /\ \A i \in Issued(trace, IsMirrorOrTriggerDDL) :
          trace[i].stmt.table \in DOMAIN src => src[trace[i].stmt.table].pk # <<>>
    /\ ( /\ calls # <<>>
         /\ Last(calls).fn \in {"create_mariadb_scylla_table",
                                "create_replication_triggers"}
         /\ Last(calls).table \in DOMAIN src
         /\ src[Last(calls).table].pk = <<>>
         /\ Injected(trace) = 0 ) =>
            /\ ret = "False"
            /\ Says(trace, "no primary key found")
                 \/ Says(trace, "no primary key, skipping")

\* the columns of table t flagged as primary key, as a set
KeyColumns(t) ==
    { src[t].cols[i].column_name :
        i \in { k \in 1..Len(src[t].cols) : src[t].cols[k].column_key = "PRI" } }

\* C5: every update trigger installed on a table with a primary key locates
\* the mirror row by one equality per primary-key column against that
\* column's OLD value (no key column left out, none tested twice, NEW never
\* used), and assigns every column of the table, in order, from NEW.
C5_UpdateTriggerUsesOld ==
    \A g \in db.triggers :
        (g.event = "UPDATE" /\ src[g.table].pk # <<>>) =>
            /\ Len(g.where) = Cardinality(KeyColumns(g.table))
            /\ { g.where[i].col : i \in 1..Len(g.where) } = KeyColumns(g.table)
            /\ { g.where[i].col : i \in 1..Len(g.where) }
                 = { src[g.table].pk[i] : i \in 1..Len(src[g.table].pk) }
            /\ \A i \in 1..Len(g.where) :
                  g.where[i].ref = "OLD" /\ g.where[i].of = g.where[i].col
            /\ Len(g.assign) = Len(src[g.table].cols)
            /\ \A i \in 1..Len(g.assign) :
                  /\ g.assign[i].col = src[g.table].cols[i].column_name
                  /\ g.assign[i].ref = "NEW"
                  /\ g.assign[i].of = g.assign[i].col

C5_Witness ==
    \E g \in db.triggers :
        /\ g.event = "UPDATE"
        /\ Len(src[g.table].pk) = 2
        /\ Len(g.where) = 2

\* C6: binary(16) and char(36) are mapped to uuid, and char(10) is not.
C6_UuidShapes ==
    mtRes # NoResult =>
        /\ mtIn \in {S_binary16, S_char36} => mtRes.type = T_uuid
        /\ mtIn = S_char10 => mtRes.type # T_uuid

\* the base keyword of a type string: lower-cased, cut at the first '('
BaseKeyword(s) == SplitParenFirst(Lower(s))

KeySet == { type_mapping[i][1] : i \in 1..Len(type_mapping) }

\* the mapping keys that are a prefix of base keyword b
PrefixKeys(b) == { k \in KeySet : StartsWith(b, k) }

LongestPrefixKey(b) ==
    CHOOSE k \in PrefixKeys(b) : \A o \in PrefixKeys(b) : Len(o) <= Len(k)

TargetOf(k) ==
    type_mapping[CHOOSE i \in 1..Len(type_mapping) : type_mapping[i][1] = k][2]

\* C7: a type whose base keyword has a mapping key as a prefix is mapped to
\* the target of the longest such key; timestamp and datetime map to
\* timestamp, time to time and date to date.
C7_LongestKeyWins ==
    mtRes # NoResult =>
        /\ PrefixKeys(BaseKeyword(mtIn)) # {} =>
              mtRes.type = TargetOf(LongestPrefixKey(BaseKeyword(mtIn)))
        /\ mtIn \in {T_timestamp, T_datetime} => mtRes.type = T_timestamp
        /\ mtIn = T_time => mtRes.type = T_time /\ T_time # T_timestamp
        /\ mtIn = T_date => mtRes.type = T_date /\ T_date # T_timestamp

C7_Witness ==
    /\ mtIn = T_timestamp
    /\ Cardinality(PrefixKeys(BaseKeyword(mtIn))) = 2
    /\ mtRes.type = T_timestamp

HasUuidShape(s) == Contains(Lower(s), S_binary16) \/ Contains(Lower(s), S_char36)

Unclassified(s) == PrefixKeys(BaseKeyword(s)) = {} /\ ~HasUuidShape(s)

TargetTypes == { type_mapping[i][2] : i \in 1..Len(type_mapping) } \cup {T_uuid}

\* C8: every call returns a target type name; a type with no mapping key as
\* a prefix of its base keyword and no UUID shape yields text and exactly
\* one warning that names the type as it was given; any other type yields
\* no diagnostic.
C8_TotalWithOneWarning ==
    mtRes # NoResult =>
        /\ mtRes.type \in TargetTypes
        /\ Unclassified(mtIn) =>
              /\ mtRes.type = T_text
              /\ Len(mtRes.diag) = 1
              /\ mtRes.diag[1].level = "warning"
              /\ mtRes.diag[1].unknown = mtIn
        /\ ~Unclassified(mtIn) => mtRes.diag = <<>>

C8_Witness ==
    /\ mtIn = <<"j", "s", "o", "n">>
    /\ mtRes.type = T_text
    /\ Len(mtRes.diag) = 1

\* C9: for every key of the mapping table, mapping the type the key is
\* mapped to gives that same type again, and the call made on an argument
\* returns the value of the function at that argument.
C9_IdempotentOnKeys ==
    /\ (mtRes # NoResult) => mtRes = mariadb_type_to_cql_type(mtIn)
    /\ (mtAgain # NoResult /\ mtIn \in KeySet) => mtAgain.type = mtRes.type

C9_Witness ==
    /\ mtIn = T_datetime
    /\ mtRes.type = T_timestamp
    /\ mtAgain # NoResult
    /\ mtAgain.type = T_timestamp

CountSucceeded(tr) ==
    \E i \in 1..Len(tr) :
        tr[i].ev = "execute" /\ tr[i].stmt.op = "SELECT_COUNT" /\ tr[i].ok

\* C10: after a copy call whose row count was read: with 0 source rows the
\* skip is printed and no copy statement is executed; with N > 0 rows exactly
\* one INSERT ... SELECT on that table is executed; no table gets a second
\* copy call in the run, and a copy that succeeded leaves every source row
\* in the mirror table.
C10_CopyGuardedByCount ==
    (pc \in {"migrate_table_data", "cleanup"} /\ calls # <<>>
        /\ Last(calls).fn = "migrate_table_data") =>
        LET t == Last(calls).table
            copies == Issued(trace, IsCopy)
        IN  /\ Cardinality({ j \in 1..Len(calls) :
                               calls[j] = Call("migrate_table_data", t) }) = 1
            /\ Cardinality(copies) <= 1
            /\ (CountSucceeded(trace) /\ src[t].rows = {}) =>
                  copies = {} /\ Says(trace, "no data in source table")
            /\ (CountSucceeded(trace) /\ src[t].rows # {}) =>
                  /\ Cardinality(copies) = 1
                  /\ \A i \in copies :
                        /\ trace[i].stmt.table = t
                        /\ trace[i].ok => TheTable(db.mirror, t).rows = src[t].rows

C10_Witness ==
    /\ pc = "cleanup"
    /\ Len(tables) = 2
    /\ CountSucceeded(trace)
    /\ src[Last(calls).table].rows = {}
    /\ \E j \in 1..Len(calls) :
          /\ calls[j].fn = "migrate_table_data"
          /\ src[calls[j].table].rows # {}
          /\ HasTable(db.mirror, calls[j].table)
          /\ TheTable(db.mirror, calls[j].table).rows = src[calls[j].table].rows

IsDropTrigger(stmt) == stmt.op = "DROP_TRIGGER"

IsCreateTrigger(stmt) == stmt.op = "CREATE_TRIGGER"

\* the trigger statements of a trace that were issued for name n
DropsOf(tr, n) ==
    { j \in Issued(tr, IsDropTrigger) : tr[j].stmt.body.name = n }

CreatesOf(tr, n) ==
    { i \in Issued(tr, IsCreateTrigger) : tr[i].stmt.body.name = n }

\* the name <table>_<op>_trigger an event's trigger must carry
NameFor(table, event) ==
    << table,
       CASE event = "INSERT" -> "insert"
         [] event = "UPDATE" -> "update"
         [] event = "DELETE" -> "delete",
       "trigger" >>

\* C11: every CREATE TRIGGER issued carries the name <table>_<op>_trigger of
\* its operation and comes after a DROP TRIGGER IF EXISTS of that same name;
\* and once the drops were issued, if no statement other than a drop fails,
\* the CREATE TRIGGER of each of the three operations is issued, whatever
\* the drops did.
C11_DropBeforeCreate ==
    /\ \A i \in Issued(trace, IsCreateTrigger) :
          /\ trace[i].stmt.body.name
               = NameFor(trace[i].stmt.table, trace[i].stmt.body.event)
          /\ \E j \in DropsOf(trace, trace[i].stmt.body.name) :
                j < i /\ trace[j].stmt.cond
    /\ ( /\ Issued(trace, IsDropTrigger) # {}
         /\ \A i \in 1..Len(trace) :
               (trace[i].ev = "execute" /\ ~trace[i].ok) =>
                   IsDropTrigger(trace[i].stmt) ) =>
            \A j \in Issued(trace, IsDropTrigger) :
                \E i \in CreatesOf(trace, trace[j].stmt.body.name) : j < i

C11_Witness ==
    /\ \E j \in Issued(trace, IsDropTrigger) : ~trace[j].ok
    /\ Cardinality(Issued(trace, IsCreateTrigger)) = 3
    /\ \A i \in Issued(trace, IsCreateTrigger) : trace[i].ok

\* the calls of function fn made so far in this run, in order
CallsOf(fn) == SelectSeq(calls, LAMBDA c : c.fn = fn)

\* C12: the table list is in ascending order of name; the k-th setup call
\* and the k-th copy call of a run are made on the k-th table of that list;
\* and a run that reads the table list reads the same list as the run before.
C12_LexicographicOrder ==
    /\ \A i, j \in 1..Len(tables) :
          i < j => NameRank(tables[i]) < NameRank(tables[j])
    /\ \A fn \in {"setup_table_migration", "migrate_table_data"} :
          /\ Len(CallsOf(fn)) <= Len(tables)
          /\ \A k \in 1..Len(CallsOf(fn)) : CallsOf(fn)[k].table = tables[k]
    /\ (tables # <<>> /\ baseline.order # <<>>) => tables = baseline.order

C12_Witness ==
    /\ runNo = 2
    /\ pc = "done"
    /\ tables = <<"animals", "habitats">>
    /\ baseline.order = tables
    /\ Len(CallsOf("setup_table_migration")) = 2
    /\ Len(CallsOf("migrate_table_data")) = 2

\* C13: the per-table sequence is run table by table: a table's setup call
\* is made only after every table set up before it had its copy call.
C13_TableByTable ==
    \A k \in 1..Len(calls) :
        calls[k].fn = "setup_table_migration" =>
            \A j \in 1..(k - 1) :
                (calls[j].fn = "setup_table_migration"
                    /\ calls[j].table # calls[k].table) =>
                    \E m \in (j + 1)..(k - 1) :
                        calls[m] = Call("migrate_table_data", calls[j].table)

IsMirrorCreate(stmt) == stmt.op = "CREATE_TABLE" /\ stmt.target = "mirror"

\* C14: a CREATE TRIGGER is issued on a table only after the CREATE TABLE of
\* its mirror table succeeded in the same call.
C14_TriggersAfterMirror ==
    \A i \in Issued(trace, IsCreateTrigger) :
        \E j \in Issued(trace, IsMirrorCreate) :
            /\ j < i
            /\ trace[j].stmt.table = trace[i].stmt.table
            /\ trace[j].ok

IsCountOrCopy(stmt) == stmt.op \in {"SELECT_COUNT", "INSERT_SELECT"}

\* C15: a row-count query or a copy statement is issued only for a table
\* that has a primary key and has its mirror table and its three triggers.
C15_CopyOnlyAfterTriggers ==
    \A i \in Issued(trace, IsCountOrCopy) :
        LET t == trace[i].stmt.table
        IN  /\ src[t].pk # <<>>
            /\ HasTable(db.mirror, t)
            /\ \A n \in 1..3 : HasTrigger(db, TriggerName(t, TriggerTypes[n]))

\* a connection attempt of this run failed
ConnectFailed ==
    \E k \in 1..Len(calls) :
        \/ calls[k].fn = "connect_to_mariadb" /\ conn = "none"
        \/ calls[k].fn = "connect_to_scylla" /\ session = "none"

\* C16: once a connection attempt failed the run is over with exit status 1:
\* the failed attempt is the last call of the run, only connection attempts
\* were made, no statement was executed, no table list was read and, in a
\* first run, nothing exists in either database; and from such a state the
\* databases change no more until the tool is started again.
C16_ConnectionFailureAborts ==
    /\ [](ConnectFailed =>
            /\ pc = "exit1"
            /\ ret = "exit"
            /\ \A k \in 1..Len(calls) :
                  calls[k].fn \in {"connect_to_mariadb", "connect_to_scylla"}
            /\ \A i \in 1..Len(trace) : trace[i].ev = "print"
            /\ tables = <<>>
            /\ runNo = 1 => db = EmptyDb)
    /\ [][pc = "exit1" => (db' = db /\ pc' = "connect_to_mariadb"
                            /\ runNo' = runNo + 1)]_vars

C16_Witness ==
    /\ pc = "exit1"
    /\ conn = "open"
    /\ session = "none"
    /\ Len(calls) = 2
    /\ runNo = 2
    /\ db.mirrorDb

\* the cursors open after the first k events of a trace
OpenCursors(tr, k) ==
    Cardinality({ i \in 1..k : tr[i].ev = "cursor" /\ tr[i].msg = "open" })
    - Cardinality({ i \in 1..k : tr[i].ev = "cursor" /\ tr[i].msg = "close" })

\* C17: every call leaves no cursor open, however it ends (return, skip or
\* exception), and at no point of a call are more than three cursors open:
\* the one of setup_table_migration, the one of a generator it calls and the
\* one of get_table_schema.
C17_CursorsClosed ==
    /\ OpenCursors(trace, Len(trace)) = 0
    /\ \A k \in 0..Len(trace) :
          OpenCursors(trace, k) >= 0 /\ OpenCursors(trace, k) <= 3

C17_Witness ==
    /\ pc = "raised"
    /\ calls # <<>>
    /\ Last(calls).fn = "setup_table_migration"
    /\ Len(tables) = 2
    /\ \E k \in 1..Len(trace) : OpenCursors(trace, k) = 1
    /\ OpenCursors(trace, Len(trace)) = 0

\* the names of the columns of table t flagged primary, in declaration order
FlaggedPrimary(t) ==
    LET p == SelectSeq(src[t].cols, LAMBDA c : c.column_key = "PRI")
    IN  [i \in 1..Len(p) |-> p[i].column_name]

\* C18: every CREATE TABLE issued for a mirror table is conditional (IF NOT
\* EXISTS) and its PRIMARY KEY lists the columns flagged primary in the
\* source, each once, in declaration order; and a call of the mirror-table
\* generator that reads an empty column list issues no CREATE TABLE and
\* returns False.
C18_MirrorDefinition ==
    /\ \A i \in Issued(trace, IsMirrorCreate) :
          /\ trace[i].stmt.cond
          /\ trace[i].stmt.table \in DOMAIN src
          /\ trace[i].stmt.body.pk = FlaggedPrimary(trace[i].stmt.table)
          /\ \A a, b \in 1..Len(trace[i].stmt.body.pk) :
                a # b => trace[i].stmt.body.pk[a] # trace[i].stmt.body.pk[b]
    /\ ( /\ calls # <<>>
         /\ Last(calls).fn = "create_mariadb_scylla_table"
         /\ Last(calls).table \notin DOMAIN src
         /\ Injected(trace) = 0 ) =>
            /\ ret = "False"
            /\ Issued(trace, IsMirrorCreate) = {}
            /\ Says(trace, "no columns found")

\* the mirror-table generator called on a name the source has no table of
C18_Witness ==
    /\ calls # <<>>
    /\ Last(calls).fn = "create_mariadb_scylla_table"
    /\ Last(calls).table \notin DOMAIN src
    /\ Injected(trace) = 0
    /\ ret = "False"
    /\ Says(trace, "no columns found")

\* C19 (as stated): a health check never ends by an exception: a probe that
\* raises is an unsuccessful probe like any other.
C19_EveryRaiseCounts ==
    check # "none" =>
        /\ healthy \in {"pending", "True", "False"}
        /\ (probes > 0 /\ probe \notin {"returncode 0", "exit_code 0, UN"}) =>
              probes = attempt

\* the state of a health check against the probes it made
HealthInv ==
    check # "none" =>
        /\ probes <= max_attempts
        /\ healthy = "pending" =>
              /\ probes = attempt
              /\ attempt < max_attempts
              /\ slept = sleep_seconds * attempt
              /\ probes > 0 => probe \notin {"returncode 0", "exit_code 0, UN"}
        /\ healthy = "True" =>
              /\ probe \in {"returncode 0", "exit_code 0, UN"}
              /\ probes = attempt + 1
              /\ slept = sleep_seconds * attempt
        /\ healthy = "False" =>
              /\ probes = max_attempts
              /\ attempt = max_attempts
              /\ probe \notin {"returncode 0", "exit_code 0, UN"}
              /\ slept = sleep_seconds * (max_attempts - 1)
        /\ healthy = "raise" =>
              /\ check = "check_mariadb_health"
              /\ probe = "OSError"
              /\ probes = attempt + 1
              /\ slept = sleep_seconds * attempt

\* C19: a health check makes at most 60 probes and ends; it returns True at
\* the first successful probe and probes no more; it returns False only
\* after 60 unsuccessful probes; it sleeps 2 seconds after every
\* unsuccessful probe but the 60th; an unsuccessful probe is one with a
\* non-zero code (ScyllaDB: or without "UN" in the output) or one that raises
\* an exception the check catches: TimeoutExpired or FileNotFoundError for
\* MariaDB, any Exception for ScyllaDB.  Another exception raised by the
\* MariaDB probe ends check_mariadb_health by that exception.
C19_BoundedPolling ==
    /\ []HealthInv
    /\ [][healthy = "pending"]_healthvars
    /\ <>(check # "none" => healthy # "pending")

C19_Witness ==
    /\ check = "check_scylladb_health"
    /\ healthy = "False"
    /\ probe = "Exception"
    /\ probes = max_attempts
    /\ slept = sleep_seconds * (max_attempts - 1)

\* C20: after any sequence of single-row inserts, updates (of the key
\* columns too) and deletes on a source table whose setup completed, the
\* mirror table holds exactly the rows of the source table.
C20_MirrorFollowsSource ==
    pc = "replicate" =>
        /\ HasTable(db.mirror, tables[idx])
        /\ TheTable(db.mirror, tables[idx]).rows = src[tables[idx]].rows

C20_Witness ==
    /\ pc = "replicate"
    /\ ret = "update of the key"
    /\ Len(src[tables[idx]].pk) = 2
    /\ Cardinality(src[tables[idx]].rows) = 2
    /\ TheTable(db.mirror, tables[idx]).rows = src[tables[idx]].rows

\* the triggers of table t installed in database d
InstalledTriggers(d, t) ==
    { k \in 1..Len(TriggerTypes) : HasTrigger(d, TriggerName(t, TriggerTypes[k])) }

\* C21: when create_replication_triggers returns, all three triggers of the
\* table exist or none does, and it returns True exactly when the three
\* CREATE TRIGGER of that call succeeded.  Stated for the calls in which no
\* statement other than a CREATE TRIGGER fails.
C21_AllOrNothing ==
    ( /\ calls # <<>>
      /\ Last(calls).fn = "create_replication_triggers"
      /\ \A i \in 1..Len(trace) :
            (trace[i].ev = "execute" /\ ~trace[i].ok) =>
                IsCreateTrigger(trace[i].stmt) ) =>
        /\ Cardinality(InstalledTriggers(db, Last(calls).table)) \in {0, 3}
        /\ ret = "True" <=>
              Cardinality({ i \in Issued(trace, IsCreateTrigger) : trace[i].ok }) = 3

\* C22: when a run that opened both connections has ended (completion, exit
\* for want of tables, or an exception raised by the database creation, the
\* table query or a table's setup), the source connection is closed and the
\* target session is shut down.
C22_ConnectionsReleased ==
    pc \in {"done", "exit0", "raised"} =>
        /\ conn = "closed"
        /\ session = "closed"

IsTargetCreate(stmt) == stmt.op = "CREATE_TABLE" /\ stmt.target = "scylla"

IsKeyedTrigger(stmt) == IsCreateTrigger(stmt) /\ stmt.body.where # <<>>

WhereColumns(stmt) ==
    [k \in 1..Len(stmt.body.where) |-> stmt.body.where[k].col]

\* C23: within the setup of a table, the primary-key column sequence of the
\* CREATE TABLE sent to ScyllaDB is that of the mirror table's CREATE TABLE
\* and that of the WHERE clause of the update and delete triggers.
C23_SameKeySequence ==
    \A i \in Issued(trace, IsTargetCreate) :
        /\ \A j \in Issued(trace, IsMirrorCreate) :
              trace[j].stmt.table = trace[i].stmt.table =>
                  trace[j].stmt.body.pk = trace[i].stmt.body.pk
        /\ \A j \in Issued(trace, IsKeyedTrigger) :
              trace[j].stmt.table = trace[i].stmt.table =>
                  WhereColumns(trace[j].stmt) = trace[i].stmt.body.pk

\* C24: when manage_container has returned, the container was found running,
\* started or created, the health wait was made, and the container is what
\* is returned.
C24_ReturnsAfterActing ==
    manage.at = "returned" =>
        /\ manage.did \in {"found running", "started", "created"}
        /\ manage.waited
        /\ manage.returns = "container"

====
